---------------------------- MODULE Spec2Model ----------------------------
(***************************************************************************)
(* Canvas-Assignment-Assistant MCP server (src/src/index.ts).              *)
(*                                                                         *)
(* The module models the remote resource client (canvasApiRequest), the    *)
(* date utilities (parseDate, isDateInRange), the text rendering used by   *)
(* the search (htmlToPlainText) and the tool and resource handlers         *)
(* (list_courses, canvas_list_active_courses, search_assignments,          *)
(* get_assignment, assignment_content) as a state machine whose steps are  *)
(* the handlers' segments between two awaits.  The pure functions          *)
(* (parseDate, isDateInRange, the text stage, the sort, the three HTML     *)
(* conversions) are also applied to drawn inputs, and search_assignments   *)
(* is also run as two calls that interleave at their awaits.               *)
(*                                                                         *)
(* Strings whose content the code inspects are sequences of one-character  *)
(* strings.  A date string is a record: a bare YYYY-MM-DD string keeps its *)
(* three numbers, a full timestamp keeps the absolute instant it denotes,  *)
(* "garbage" is a string new Date() cannot parse.  An instant is a pair of *)
(* a day number (days since 1970-01-01 UTC) and a millisecond of that day. *)
(***************************************************************************)
EXTENDS Integers, Sequences, FiniteSets, TLC

VARIABLES
    canvasApiToken,   \* index.ts:18, "null" when CANVAS_API_TOKEN is unset
    canvasDomain,     \* index.ts:19, "null" when CANVAS_DOMAIN is unset
    tz,               \* the local time zone's offset from UTC, in minutes
    setup,            \* position of validateSetup (index.ts:276-294)
    pc,               \* position of the handler being run
    op,               \* the tool or resource invoked
    args,             \* its arguments
    request,          \* the outbound request in flight, or NoRequest
    netCalls,         \* number of fetch() calls issued so far
    response,         \* what the handler's first request ended in
    courses,          \* search_assignments: the resolved course set
    idx,              \* search_assignments: index of the course being fetched
    responses,        \* search_assignments: what each course's request ended in
    allResults,       \* search_assignments: the accumulated results
    log,              \* console.error lines that carry an error message
    outcome,          \* what the dispatcher received from the handler
    call,             \* a pure function's call under test: its name and inputs
    ret,              \* that call's return value
    invocations       \* interleaved invocations of search_assignments: the
                      \* locals of each handler call

vars == <<canvasApiToken, canvasDomain, tz, setup, pc, op, args, request,
          netCalls, response, courses, idx, responses, allResults, log,
          outcome, call, ret, invocations>>

serverVars == <<canvasApiToken, canvasDomain, setup, pc, op, args, request,
                netCalls, response, courses, idx, responses, allResults, log,
                outcome>>

-----------------------------------------------------------------------------
(* Bounds of the model *)

\* longest query drawn for the text stage
MaxLen == 3
\* longest assignment title drawn for the text stage
MaxTitle == 2
\* longest list handed to the sort
MaxSort == 3
\* most courses in the resolved course set
MaxCourses == 2
\* longest plain text handed to the Markdown conversion
MaxText == 5
\* most children of an element of a drawn document
MaxKids == 2

-----------------------------------------------------------------------------
(* Values *)

NULL == "null"

RECURSIVE SeqsUpTo(_, _)
\* all sequences over S of length at most n
SeqsUpTo(S, n) ==
    IF n = 0 THEN {<<>>}
    ELSE LET shorter == SeqsUpTo(S, n - 1)
         IN  shorter \cup {Append(s, c) : s \in {t \in shorter : Len(t) = n - 1}, c \in S}

-----------------------------------------------------------------------------
(* Date utilities: index.ts:229-273 *)

MsPerDay == 24 * 60 * 60 * 1000

\* date strings
NullDate      == [kind |-> "null"]        \* null
UndefinedDate == [kind |-> "undefined"]   \* an optional parameter left out
EmptyDate     == [kind |-> "empty"]       \* ""
GarbageDate   == [kind |-> "garbage"]     \* a string new Date() rejects
Bare(y, m, d) == [kind |-> "bare", y |-> y, m |-> m, d |-> d]
Iso(day, ms)  == [kind |-> "iso", day |-> day, ms |-> ms]

\* JavaScript truthiness of a string | null | undefined
Truthy(s) == s.kind \notin {"null", "undefined", "empty"}

\* parsed dates: Date | null
NoInstant == [valid |-> FALSE]
Instant(day, ms) == [valid |-> TRUE, day |-> day, ms |-> ms]

\* an instant moved by delta milliseconds
AddMs(t, delta) ==
    LET total == t.ms + delta
    IN  Instant(t.day + (total \div MsPerDay), total % MsPerDay)

\* Date.prototype.getTime() compared: a's instant minus b's, as a sign
CompareTime(a, b) ==
    IF a.day # b.day THEN (IF a.day < b.day THEN -1 ELSE 1)
    ELSE IF a.ms # b.ms THEN (IF a.ms < b.ms THEN -1 ELSE 1)
    ELSE 0

\* days from 1970-01-01 to the first day of month m (1..12) of year y
DaysFromCivil(y, m) ==
    LET yy  == IF m <= 2 THEN y - 1 ELSE y
        era == yy \div 400
        yoe == yy - era * 400
        mp  == (m + 9) % 12
        doy == (153 * mp + 2) \div 5
        doe == yoe * 365 + (yoe \div 4) - (yoe \div 100) + doy
    IN  era * 146097 + doe - 719468

\* new Date(year, monthIndex, day): local midnight; a month or a day out of
\* range carries over, a year 0..99 means 1900 + year
LocalDate(year, monthIndex, day) ==
    LET fullYear == IF year >= 0 /\ year <= 99 THEN 1900 + year ELSE year
        ym  == fullYear + (monthIndex \div 12)
        mn  == monthIndex % 12
        dayNumber == DaysFromCivil(ym, mn + 1) + day - 1
    IN  AddMs(Instant(dayNumber, 0), -(tz * 60 * 1000))

\* Date.prototype.setHours(h, m, s, ms) as used by the code: the local day of
\* the instant is kept and the local time of day is set to msOfDay
SetHours(t, msOfDay) ==
    LET local == AddMs(t, tz * 60 * 1000)
    IN  AddMs(Instant(local.day, msOfDay), -(tz * 60 * 1000))

EndOfDay   == ((23 * 60 + 59) * 60 + 59) * 1000 + 999
StartOfDay == ((0 * 60 + 0) * 60 + 0) * 1000 + 0

parseDate(dateStr) ==
    IF ~Truthy(dateStr) THEN NoInstant
    ELSE IF dateStr.kind = "bare"
         THEN LocalDate(dateStr.y, dateStr.m - 1, dateStr.d)
    ELSE IF dateStr.kind = "iso" THEN Instant(dateStr.day, dateStr.ms)
    ELSE NoInstant

\* isDateInRange with a date that fails to parse treated as out of range
isDateInRange_strict(date, before, after) ==
    IF ~Truthy(date) THEN TRUE
    ELSE LET dueDate == parseDate(date)
             beforeDate == parseDate(before)
             afterDate  == parseDate(after)
         IN  IF ~dueDate.valid THEN ~(Truthy(before) \/ Truthy(after))
             ELSE IF /\ Truthy(before) /\ beforeDate.valid
                     /\ CompareTime(dueDate, SetHours(beforeDate, EndOfDay)) > 0
                  THEN FALSE
             ELSE IF /\ Truthy(after) /\ afterDate.valid
                     /\ CompareTime(dueDate, SetHours(afterDate, StartOfDay)) < 0
                  THEN FALSE
             ELSE TRUE

\* isDateInRange with the last millisecond of the `before` day left out
isDateInRange_exclusive(date, before, after) ==
    IF ~Truthy(date) THEN TRUE
    ELSE LET dueDate == parseDate(date)
             beforeDate == parseDate(before)
             afterDate  == parseDate(after)
         IN  IF ~dueDate.valid THEN TRUE
             ELSE IF /\ Truthy(before) /\ beforeDate.valid
                     /\ CompareTime(dueDate, SetHours(beforeDate, EndOfDay)) >= 0
                  THEN FALSE
             ELSE IF /\ Truthy(after) /\ afterDate.valid
                     /\ CompareTime(dueDate, SetHours(afterDate, StartOfDay)) < 0
                  THEN FALSE
             ELSE TRUE

isDateInRange(date, before, after) ==
    IF ~Truthy(date) THEN TRUE
    ELSE LET dueDate == parseDate(date)
             beforeDate == parseDate(before)
             afterDate  == parseDate(after)
         IN  IF ~dueDate.valid THEN TRUE
             ELSE IF /\ Truthy(before) /\ beforeDate.valid
                     /\ CompareTime(dueDate, SetHours(beforeDate, EndOfDay)) > 0
                  THEN FALSE
             ELSE IF /\ Truthy(after) /\ afterDate.valid
                     /\ CompareTime(dueDate, SetHours(afterDate, StartOfDay)) < 0
                  THEN FALSE
             ELSE TRUE

\* new Date(dateStr): a bare YYYY-MM-DD string that names a calendar day is
\* midnight UTC of that day
NewDate(dateStr) ==
    IF dateStr.kind = "bare"
    THEN Instant(DaysFromCivil(dateStr.y, dateStr.m) + dateStr.d - 1, 0)
    ELSE IF dateStr.kind = "iso" THEN Instant(dateStr.day, dateStr.ms)
    ELSE NoInstant

\* formatDate(dateStr) in its 'full' format (index.ts:202-227): the local
\* day and minute the locale string shows
formatDate(dateStr) ==
    IF ~Truthy(dateStr) THEN [text |-> "No date set"]
    ELSE LET date == NewDate(dateStr)
             local == AddMs(date, tz * 60 * 1000)
         IN  IF ~date.valid THEN [text |-> "Invalid date"]
             ELSE [text |-> "date", day |-> local.day,
                   minute |-> local.ms \div (60 * 1000)]

-----------------------------------------------------------------------------
(* Text utilities: the string operations the search uses, and htmlToPlainText
   (index.ts:107-113) *)

Whitespace == {" ", "\n"}
Digits == {"0", "1", "2", "3", "4", "5", "6", "7", "8", "9"}

\* String.prototype.toLowerCase, one character
LowerChar(c) == IF c = "A" THEN "a" ELSE IF c = "B" THEN "b" ELSE c

toLowerCase(s) == [i \in 1..Len(s) |-> LowerChar(s[i])]

RECURSIVE TrimStart(_)
TrimStart(s) ==
    IF s # <<>> /\ Head(s) \in Whitespace THEN TrimStart(Tail(s)) ELSE s

RECURSIVE TrimEnd(_)
TrimEnd(s) ==
    IF s # <<>> /\ s[Len(s)] \in Whitespace
    THEN TrimEnd(SubSeq(s, 1, Len(s) - 1)) ELSE s

\* trim that leaves the whitespace at the end
trim_startOnly(s) == TrimStart(s)

\* String.prototype.trim
trim(s) == TrimEnd(TrimStart(s))

\* String.prototype.includes
includes(s, term) ==
    \E i \in 1..(Len(s) - Len(term) + 1) : SubSeq(s, i, i + Len(term) - 1) = term

RECURSIVE SplitFrom(_, _)
\* s.split(/\s+/).filter(term => term.length > 0): cur is the term being read
SplitFrom(s, cur) ==
    IF s = <<>> THEN (IF cur = <<>> THEN <<>> ELSE <<cur>>)
    ELSE IF Head(s) \in Whitespace
         THEN (IF cur = <<>> THEN <<>> ELSE <<cur>>) \o SplitFrom(Tail(s), <<>>)
    ELSE SplitFrom(Tail(s), Append(cur, Head(s)))

SplitTerms(s) == SplitFrom(s, <<>>)

RECURSIVE EscapeDollar(_)
\* text.replace(/\$(\d+)/g, '\\$$$1'): a backslash before every $ that a
\* digit follows
EscapeDollar(s) ==
    IF s = <<>> THEN <<>>
    ELSE IF Head(s) = "$" /\ Len(s) >= 2 /\ s[2] \in Digits
         THEN <<"\\", "$">> \o EscapeDollar(Tail(s))
    ELSE <<Head(s)>> \o EscapeDollar(Tail(s))

\* HTML values: string | null, and the document JSDOM parses a string into
NullHtml    == [kind |-> "null"]
EmptyHtml   == [kind |-> "empty"]
Html(nodes) == [kind |-> "html", body |-> nodes]

TextNode(chars)     == [type |-> "text", text |-> chars]
CommentNode         == [type |-> "comment"]
Element(tag, nodes) == [type |-> "element", tag |-> tag, children |-> nodes]
\* an <a> element that has an href attribute
Anchor(href, nodes) ==
    [type |-> "element", tag |-> "a", href |-> href, children |-> nodes]

RECURSIVE textContent(_)
\* Node.textContent of a list of sibling nodes: the text of every text node
\* below them, in document order
textContent(nodes) ==
    IF nodes = <<>> THEN <<>>
    ELSE LET n == Head(nodes)
             own == IF n.type = "text" THEN n.text
                    ELSE IF n.type = "element" THEN textContent(n.children)
                    ELSE <<>>
         IN  own \o textContent(Tail(nodes))

htmlToPlainText(html) ==
    IF html.kind # "html" THEN <<>>
    ELSE EscapeDollar(textContent(html.body))

-----------------------------------------------------------------------------
(* convertHtmlToMarkdown and extractLinks: index.ts:115-199 *)

DigitChar(d) ==
    CASE d = 0 -> "0" [] d = 1 -> "1" [] d = 2 -> "2" [] d = 3 -> "3"
      [] d = 4 -> "4" [] d = 5 -> "5" [] d = 6 -> "6" [] d = 7 -> "7"
      [] d = 8 -> "8" [] d = 9 -> "9"

RECURSIVE NumberChars(_)
\* `${n}` of a natural number
NumberChars(n) ==
    IF n < 10 THEN <<DigitChar(n)>>
    ELSE Append(NumberChars(n \div 10), DigitChar(n % 10))

RECURSIVE JoinWith(_, _)
\* Array.prototype.join(sep)
JoinWith(parts, sep) ==
    IF parts = <<>> THEN <<>>
    ELSE IF Len(parts) = 1 THEN parts[1]
    ELSE parts[1] \o sep \o JoinWith(Tail(parts), sep)

\* getTextContent (index.ts:121-123)
getTextContent(element) == EscapeDollar(textContent(element.children))

\* element.getAttribute('href')
HasHref(element) == "href" \in DOMAIN element

\* element.children: the child nodes that are elements
ElementChildren(element) ==
    SelectSeq(element.children, LAMBDA n : n.type = "element")

RECURSIVE processNode(_)
RECURSIVE processNodes(_)
\* the children transformed and joined
processNodes(nodes) ==
    IF nodes = <<>> THEN <<>>
    ELSE processNode(Head(nodes)) \o processNodes(Tail(nodes))

processNode(node) ==
    IF node.type = "text" THEN EscapeDollar(node.text)
    ELSE IF node.type # "element" THEN <<>>
    ELSE
      CASE node.tag = "h1" -> <<"#", " ">> \o getTextContent(node) \o <<"\n", "\n">>
        [] node.tag = "h2" -> <<"#", "#", " ">> \o getTextContent(node) \o <<"\n", "\n">>
        [] node.tag = "h3" ->
                <<"#", "#", "#", " ">> \o getTextContent(node) \o <<"\n", "\n">>
        [] node.tag \in {"strong", "b"} ->
                <<"*", "*">> \o getTextContent(node) \o <<"*", "*">>
        [] node.tag \in {"em", "i"} -> <<"*">> \o getTextContent(node) \o <<"*">>
        [] node.tag = "ul" ->
                LET items == ElementChildren(node)
                IN  JoinWith([k \in 1..Len(items) |->
                                <<"-", " ">> \o processNode(items[k])], <<"\n">>)
                        \o <<"\n", "\n">>
        [] node.tag = "ol" ->
                LET items == ElementChildren(node)
                IN  JoinWith([k \in 1..Len(items) |->
                                NumberChars(k) \o <<".", " ">> \o processNode(items[k])],
                             <<"\n">>)
                        \o <<"\n", "\n">>
        [] node.tag = "li" -> trim(processNodes(node.children))
        [] node.tag = "p"  -> processNodes(node.children) \o <<"\n", "\n">>
        [] node.tag = "br" -> <<"\n">>
        [] node.tag = "a"  ->
                IF HasHref(node) /\ node.href # <<>>
                THEN <<"[">> \o getTextContent(node) \o <<"]", "(">>
                        \o node.href \o <<")">>
                ELSE getTextContent(node)
        [] OTHER -> processNodes(node.children)

RECURSIVE CollapseNewlines_four(_, _)
\* CollapseNewlines with /\n\n\n\n+/ as the pattern: a run of exactly three
\* newlines is left alone
CollapseNewlines_four(s, run) ==
    IF s = <<>> THEN <<>>
    ELSE IF Head(s) = "\n"
         THEN LET rest == CollapseNewlines_four(Tail(s), run + 1)
                  last == Tail(s) = <<>> \/ Head(Tail(s)) # "\n"
              IN  IF run + 1 = 3 /\ last THEN <<"\n">> \o rest
                  ELSE IF run >= 2 THEN rest
                  ELSE <<"\n">> \o rest
    ELSE <<Head(s)>> \o CollapseNewlines_four(Tail(s), 0)

RECURSIVE CollapseNewlines(_, _)
\* result.replace(/\n\n\n+/g, '\n\n'); run is the number of newlines, at
\* most 2, already written for the run being read
CollapseNewlines(s, run) ==
    IF s = <<>> THEN <<>>
    ELSE IF Head(s) = "\n"
         THEN (IF run >= 2 THEN <<>> ELSE <<"\n">>)
                \o CollapseNewlines(Tail(s), IF run >= 2 THEN 2 ELSE run + 1)
    ELSE <<Head(s)>> \o CollapseNewlines(Tail(s), 0)

\* html is a string the caller found truthy
convertHtmlToMarkdown(html) ==
    CollapseNewlines(trim(processNodes(html.body)), 0)

RECURSIVE AnchorsOf(_)
\* querySelectorAll('a'): the anchors below the nodes, in document order
AnchorsOf(nodes) ==
    IF nodes = <<>> THEN <<>>
    ELSE LET n == Head(nodes)
             own == IF n.type # "element" THEN <<>>
                    ELSE (IF n.tag = "a" THEN <<n>> ELSE <<>>)
                            \o AnchorsOf(n.children)
         IN  own \o AnchorsOf(Tail(nodes))

extractLinks(html) ==
    IF html.kind # "html" THEN <<>>
    ELSE LET links == AnchorsOf(html.body)
         IN  [k \in 1..Len(links) |->
                [text |-> textContent(links[k].children),
                 href |-> IF HasHref(links[k]) THEN links[k].href ELSE <<>>]]

-----------------------------------------------------------------------------
(* search_assignments, the stages applied to one course's assignments:
   index.ts:404-406 and 437-496 *)

\* query: string | undefined
UndefinedQuery == [kind |-> "undefined"]
Query(chars)   == [kind |-> "string", chars |-> chars]

\* query?.trim() || ""
normalizedQuery(query) ==
    IF query.kind = "undefined" THEN <<>> ELSE trim(query.chars)

isWildcard(query) ==
    normalizedQuery(query) = <<>> \/ normalizedQuery(query) = <<"*">>

\* matchesQuery with the title compared without lowering its case
matchesQuery_caseSensitive(assignment, query) ==
    LET searchTerms == SplitTerms(toLowerCase(normalizedQuery(query)))
        titleMatch ==
            \E i \in 1..Len(searchTerms) :
                includes(assignment.name, searchTerms[i])
        descriptionMatch ==
            IF assignment.description.kind = "html"
            THEN \E i \in 1..Len(searchTerms) :
                    includes(toLowerCase(htmlToPlainText(assignment.description)),
                             searchTerms[i])
            ELSE FALSE
    IN  titleMatch \/ descriptionMatch

\* the callback of assignments.filter at index.ts:473-486
matchesQuery(assignment, query) ==
    LET searchTerms == SplitTerms(toLowerCase(normalizedQuery(query)))
        titleMatch ==
            \E i \in 1..Len(searchTerms) :
                includes(toLowerCase(assignment.name), searchTerms[i])
        descriptionMatch ==
            IF assignment.description.kind = "html"
            THEN \E i \in 1..Len(searchTerms) :
                    includes(toLowerCase(htmlToPlainText(assignment.description)),
                             searchTerms[i])
            ELSE FALSE
    IN  titleMatch \/ descriptionMatch

\* whether the text stage keeps the assignment (index.ts:471-486)
passesText(assignment, query) ==
    IF isWildcard(query) THEN TRUE ELSE matchesQuery(assignment, query)

matchingAssignments(assignments, query) ==
    SelectSeq(assignments, LAMBDA a : passesText(a, query))

\* the bucket parameter of the assignments request (index.ts:440-444)
bucket(dueBefore, dueAfter) ==
    IF Truthy(dueAfter) /\ ~Truthy(dueBefore) THEN "future"
    ELSE IF Truthy(dueBefore) /\ ~Truthy(dueAfter) THEN "past"
    ELSE "none"

\* the callback of matchingAssignments.filter at index.ts:489-496
passesDate(assignment, dueBefore, dueAfter) ==
    IF \/ (Truthy(dueAfter) /\ ~Truthy(dueBefore) /\ bucket(dueBefore, dueAfter) # "none")
       \/ (Truthy(dueBefore) /\ ~Truthy(dueAfter) /\ bucket(dueBefore, dueAfter) # "none")
    THEN TRUE
    ELSE isDateInRange(assignment.due_at, dueBefore, dueAfter)

dateFilteredAssignments(assignments, query, dueBefore, dueAfter) ==
    SelectSeq(matchingAssignments(assignments, query),
              LAMBDA a : passesDate(a, dueBefore, dueAfter))

\* index.ts:499-505: the course's name and ID added to each assignment
WithCourse(assignment, course) ==
    [id |-> assignment.id, name |-> assignment.name,
     description |-> assignment.description, due_at |-> assignment.due_at,
     courseName |-> course.name, courseId |-> course.id]

courseResults(assignments, course, query, dueBefore, dueAfter) ==
    LET kept == dateFilteredAssignments(assignments, query, dueBefore, dueAfter)
    IN  [i \in 1..Len(kept) |-> WithCourse(kept[i], course)]

-----------------------------------------------------------------------------
(* search_assignments, the sort of the accumulated results: index.ts:512-523 *)

\* the comparator handed to allResults.sort, as a sign
compareDue(a, b) ==
    IF ~Truthy(a.due_at) /\ ~Truthy(b.due_at) THEN 0
    ELSE IF ~Truthy(a.due_at) THEN 1
    ELSE IF ~Truthy(b.due_at) THEN -1
    ELSE LET dateA == parseDate(a.due_at)
             dateB == parseDate(b.due_at)
         IN  IF ~dateA.valid \/ ~dateB.valid THEN 0
             ELSE CompareTime(dateA, dateB)

\* the list with x inserted at index at (0-based), the rest shifted right
InsertAt(list, at, x) ==
    SubSeq(list, 1, at) \o <<x>> \o SubSeq(list, at + 1, Len(list))

RECURSIVE BinarySearch(_, _, _, _)
\* the insertion point of pivot in the sorted prefix work[left+1..right]
\* (0-based bounds): the first index whose element orders after pivot
BinarySearch(work, pivot, left, right) ==
    IF left >= right THEN left
    ELSE LET mid == left + ((right - left) \div 2)
         IN  IF compareDue(pivot, work[mid + 1]) < 0
             THEN BinarySearch(work, pivot, left, mid)
             ELSE BinarySearch(work, pivot, mid + 1, right)

RECURSIVE BinaryInsertionSort(_, _)
\* work[1..start] is sorted; the elements after it are inserted one by one
BinaryInsertionSort(work, start) ==
    IF start >= Len(work) THEN work
    ELSE LET pivot == work[start + 1]
             at    == BinarySearch(work, pivot, 0, start)
             moved == InsertAt(SubSeq(work, 1, start), at, pivot)
                        \o SubSeq(work, start + 2, Len(work))
         IN  BinaryInsertionSort(moved, start + 1)

RECURSIVE RunLength(_, _, _)
\* the length of the run that starts the list and has n elements so far
RunLength(work, n, isDescending) ==
    IF n >= Len(work) THEN n
    ELSE LET order == compareDue(work[n + 1], work[n])
         IN  IF (isDescending /\ order >= 0) \/ (~isDescending /\ order < 0)
             THEN n
             ELSE RunLength(work, n + 1, isDescending)

Reverse(list) == [i \in 1..Len(list) |-> list[Len(list) + 1 - i]]

\* V8's sort of an array shorter than its minimum run length: the run that
\* starts the array is found (and reversed when strictly descending), the
\* rest is inserted by binary search
TimSortShort(list) ==
    IF Len(list) < 2 THEN list
    ELSE LET isDescending == compareDue(list[2], list[1]) < 0
             run  == RunLength(list, 2, isDescending)
             work == IF isDescending
                     THEN Reverse(SubSeq(list, 1, run))
                            \o SubSeq(list, run + 1, Len(list))
                     ELSE list
         IN  BinaryInsertionSort(work, run)

RECURSIVE InsertLinear(_, _)
\* x put after the last element of the sorted list that does not order after it
InsertLinear(sorted, x) ==
    IF sorted # <<>> /\ compareDue(sorted[Len(sorted)], x) > 0
    THEN Append(InsertLinear(SubSeq(sorted, 1, Len(sorted) - 1), x),
                sorted[Len(sorted)])
    ELSE Append(sorted, x)

RECURSIVE InsertionSort(_)
\* the straight insertion sort other engines use for short arrays
InsertionSort(list) ==
    IF list = <<>> THEN <<>>
    ELSE InsertLinear(InsertionSort(SubSeq(list, 1, Len(list) - 1)),
                      list[Len(list)])

\* Array.prototype.sort(compareDue): the order the engine's algorithm leaves.
\* With a consistent comparator every engine yields the stable ascending
\* order; otherwise the order is implementation-defined
SortOutcomes(list) == {TimSortShort(list), InsertionSort(list)}

-----------------------------------------------------------------------------
(* The remote resource client: index.ts:75-105 *)

\* Error objects, by the message they carry
NoError       == [type |-> "none"]
\* "Canvas API token not set. Please check CANVAS_API_TOKEN ..."
TokenError    == [type |-> "configuration", missing |-> "CANVAS_API_TOKEN"]
\* "Canvas domain not set. Please check CANVAS_DOMAIN ..."
DomainError   == [type |-> "configuration", missing |-> "CANVAS_DOMAIN"]
\* `Canvas API error: ${response.status} - ${error}`
ApiError(status, text) == [type |-> "api", status |-> status, text |-> text]
\* fetch() rejected: the request did not get a response
FetchError    == [type |-> "fetch"]
\* response.json() rejected: the body is not JSON
JsonError     == [type |-> "json"]

\* ConfigurationError with getBaseUrl's check of the domain left out
ConfigurationError_tokenOnly ==
    IF canvasApiToken = NULL THEN TokenError ELSE NoError

\* what canvasApiRequest throws before it calls fetch (index.ts:85-89, with
\* getBaseUrl, index.ts:76-81), NoError when it goes on to fetch
ConfigurationError ==
    IF canvasApiToken = NULL THEN TokenError
    ELSE IF canvasDomain = NULL THEN DomainError
    ELSE NoError

\* ResponseError with the response body left out of the message
ResponseError_noBody(resp) ==
    IF resp.kind = "http_error" THEN ApiError(resp.status, "")
    ELSE IF resp.kind = "network_error" THEN FetchError
    ELSE IF resp.kind = "bad_json" THEN JsonError
    ELSE NoError

\* what canvasApiRequest throws once the request has ended (index.ts:99-104),
\* NoError when it returns the parsed body
ResponseError(resp) ==
    IF resp.kind = "http_error" THEN ApiError(resp.status, resp.text)
    ELSE IF resp.kind = "network_error" THEN FetchError
    ELSE IF resp.kind = "bad_json" THEN JsonError
    ELSE NoError

\* the ways a request can end other than with a success status and JSON
Failures ==
    { [kind |-> "http_error", status |-> 401, text |-> "unauthorized"],
      [kind |-> "http_error", status |-> 500, text |-> ""],
      [kind |-> "network_error"],
      [kind |-> "bad_json"] }

Ok(body) == [kind |-> "ok", body |-> body]

-----------------------------------------------------------------------------
(* What a handler hands to the dispatcher *)

\* { content: [{ type: "text", text }] }
ToolText(text) == [kind |-> "returned", isError |-> FALSE, text |-> text]
\* ToolError as a catch block that throws the error on
ToolError_rethrow(head, error) ==
    [kind |-> "thrown", error |-> [type |-> "wrapped", head |-> head, cause |-> error]]

\* { content: [{ type: "text", text: `${head}: ${error.message}` }], isError: true }
ToolError(head, error) ==
    [kind |-> "returned", isError |-> TRUE,
     text |-> [head |-> head, error |-> error]]
\* throw new Error(`${head}: ${error.message}`)
Thrown(head, error) ==
    [kind |-> "thrown", error |-> [type |-> "wrapped", head |-> head, cause |-> error]]

-----------------------------------------------------------------------------
(* validateSetup: index.ts:275-294 *)

ValidateSetup ==
    /\ setup = "start"
    /\ IF canvasApiToken # NULL /\ canvasDomain # NULL
       THEN /\ setup' = "await_auth"
            /\ netCalls' = netCalls + 1
       ELSE /\ setup' = "done"
            /\ UNCHANGED netCalls
    /\ UNCHANGED <<canvasApiToken, canvasDomain, tz, pc, op, args, request, response,
                   courses, idx, responses, allResults, log, outcome, call, ret,
                   invocations>>

\* the /users/self request ends
ValidateSetupResponse ==
    /\ setup = "await_auth"
    /\ \E resp \in {Ok("user"), [kind |-> "http_error", status |-> 401,
                                 text |-> "unauthorized"]} :
        log' = IF ResponseError(resp) = NoError THEN log
               ELSE Append(log, [at |-> "validateSetup", error |-> ResponseError(resp)])
    /\ setup' = "done"
    /\ UNCHANGED <<canvasApiToken, canvasDomain, tz, pc, op, args, request, netCalls,
                   response, courses, idx, responses, allResults, outcome, call, ret,
                   invocations>>

-----------------------------------------------------------------------------
(* Inputs *)

TzOffsets == {-300, 0, 330}

BareDays == {Bare(2024, 3, 10), Bare(2024, 3, 12)}

\* the timestamp string of an instant
IsoOf(t) == Iso(t.day, t.ms)

\* timestamps at and next to the first and last millisecond of the local day
IsoAround(bare) ==
    LET first == SetHours(parseDate(bare), StartOfDay)
        last  == SetHours(parseDate(bare), EndOfDay)
    IN  {IsoOf(AddMs(first, -1)), IsoOf(first), IsoOf(last), IsoOf(AddMs(last, 1))}

IsoDates == UNION {IsoAround(b) : b \in BareDays}

DueDates == {NullDate, EmptyDate, GarbageDate} \cup BareDays \cup IsoDates

RangeDates ==
    {UndefinedDate, EmptyDate, GarbageDate} \cup BareDays
        \cup {IsoOf(AddMs(parseDate(Bare(2024, 3, 11)), 1000))}

QueryChars == {"a", "B", " ", "*"}
TitleChars == {"A", "b", "*"}

Queries == {UndefinedQuery} \cup {Query(s) : s \in SeqsUpTo(QueryChars, MaxLen)}
Titles  == SeqsUpTo(TitleChars, MaxTitle)

Descriptions ==
    { NullHtml, EmptyHtml,
      Html(<<TextNode(<<"a", " ", "b">>)>>),
      Html(<<Element("p", <<TextNode(<<"A">>), Element("b", <<TextNode(<<"b">>)>>)>>),
             CommentNode>>),
      Html(<<Element("br", <<>>)>>),
      Html(<<TextNode(<<"$", "1">>)>>) }

-----------------------------------------------------------------------------
(* The state before the server is started, and a pure function's call *)

NoRequest  == [kind |-> "none"]
NoResponse == [kind |-> "none"]
NoOutcome  == [kind |-> "none"]
NoArgs    == [kind |-> "none"]
NoCall    == [fn |-> "none"]
NoRet     == [done |-> FALSE]

ServerIdle ==
    /\ setup = "start"
    /\ pc = "idle"
    /\ op = "none"
    /\ args = NoArgs
    /\ request = NoRequest
    /\ netCalls = 0
    /\ response = NoResponse
    /\ courses = <<>>
    /\ idx = 0
    /\ responses = <<>>
    /\ allResults = <<>>
    /\ log = <<>>
    /\ outcome = NoOutcome

\* a harness state: the server configured and idle, one call pending
Pending(fn) == call.fn = fn /\ ~ret.done

-----------------------------------------------------------------------------
(* isDateInRange and the date stage, on drawn inputs *)

InitDate ==
    /\ canvasApiToken = "token"
    /\ canvasDomain = "canvas.example.edu"
    /\ tz \in TzOffsets
    /\ ServerIdle
    /\ call \in {[fn |-> "isDateInRange", date |-> d, before |-> b, after |-> a] :
                    d \in DueDates, b \in RangeDates, a \in RangeDates}
    /\ ret = NoRet
    /\ invocations = <<>>

ApplyIsDateInRange ==
    /\ Pending("isDateInRange")
    /\ ret' = [done |-> TRUE,
               value |-> isDateInRange(call.date, call.before, call.after),
               kept |-> passesDate([due_at |-> call.date], call.before, call.after)]
    /\ UNCHANGED <<serverVars, tz, call, invocations>>

SpecDate == InitDate /\ [][ApplyIsDateInRange]_vars

-----------------------------------------------------------------------------
(* The text stage, on drawn inputs *)

InitText ==
    /\ canvasApiToken = "token"
    /\ canvasDomain = "canvas.example.edu"
    /\ tz = 0
    /\ ServerIdle
    /\ call \in {[fn |-> "passesText", query |-> q,
                  assignment |-> [id |-> 1, name |-> n, description |-> d,
                                  due_at |-> NullDate]] :
                    q \in Queries, n \in Titles, d \in Descriptions}
    /\ ret = NoRet
    /\ invocations = <<>>

ApplyPassesText ==
    /\ Pending("passesText")
    /\ ret' = [done |-> TRUE,
               value |-> passesText(call.assignment, call.query),
               kept |-> matchingAssignments(<<call.assignment>>, call.query)]
    /\ UNCHANGED <<serverVars, tz, call, invocations>>

SpecText == InitText /\ [][ApplyPassesText]_vars

-----------------------------------------------------------------------------
(* The sort, on drawn inputs *)

SortDates == {NullDate, GarbageDate, Bare(2024, 3, 10),
              IsoOf(AddMs(parseDate(Bare(2024, 3, 10)), 0)),
              IsoOf(AddMs(parseDate(Bare(2024, 3, 9)), 0))}

\* the i-th element of a list is identified by its position
SortLists ==
    {[i \in 1..Len(ds) |-> [id |-> i, due_at |-> ds[i]]] :
        ds \in SeqsUpTo(SortDates, MaxSort)}

InitSort ==
    /\ canvasApiToken = "token"
    /\ canvasDomain = "canvas.example.edu"
    /\ tz \in TzOffsets
    /\ ServerIdle
    /\ call \in {[fn |-> "sort", list |-> l] : l \in SortLists}
    /\ ret = NoRet
    /\ invocations = <<>>

ApplySort ==
    /\ Pending("sort")
    /\ \E sorted \in SortOutcomes(call.list) :
            ret' = [done |-> TRUE, value |-> sorted]
    /\ UNCHANGED <<serverVars, tz, call, invocations>>

SpecSort == InitSort /\ [][ApplySort]_vars

-----------------------------------------------------------------------------
(* parseDate, on drawn YYYY-MM-DD strings *)

\* strings that match /^\d{4}-\d{2}-\d{2}$/, calendar dates or not
BareTexts == {Bare(y, m, d) : y \in {2023, 2024}, m \in 0..13, d \in 0..32}

InitParse ==
    /\ canvasApiToken = "token"
    /\ canvasDomain = "canvas.example.edu"
    /\ tz \in TzOffsets
    /\ ServerIdle
    /\ call \in {[fn |-> "parseDate", dateStr |-> t] : t \in BareTexts}
    /\ ret = NoRet
    /\ invocations = <<>>

ApplyParseDate ==
    /\ Pending("parseDate")
    /\ ret' = [done |-> TRUE, value |-> parseDate(call.dateStr)]
    /\ UNCHANGED <<serverVars, tz, call, invocations>>

SpecParse == InitParse /\ [][ApplyParseDate]_vars

-----------------------------------------------------------------------------
(* The HTML conversions, on drawn documents *)

\* new JSDOM(html) on a string without markup (no "<", no "&", no carriage
\* return): the HTML parser drops the whitespace before the first other
\* character and puts the rest, as one text node, into the body
ParseText(source) ==
    IF TrimStart(source) = <<>> THEN Html(<<>>)
    ELSE Html(<<TextNode(TrimStart(source))>>)

PlainChars == {"a", " ", "\n", "$", "1"}
PlainTexts == SeqsUpTo(PlainChars, MaxText)

LeafTexts == {<<"a">>, <<"$", "1">>, <<"$">>, <<"1">>, <<" ", "a", "\n">>}
Leaves == {TextNode(t) : t \in LeafTexts} \cup {CommentNode, Element("br", <<>>)}

\* the parser never leaves two text nodes next to each other
NoAdjacentText(nodes) ==
    \A i \in 1..(Len(nodes) - 1) :
        ~(nodes[i].type = "text" /\ nodes[i + 1].type = "text")

LeafLists == {l \in SeqsUpTo(Leaves, MaxKids) : NoAdjacentText(l)}

Tags == {"h1", "h2", "h3", "strong", "b", "em", "i", "ul", "ol", "li", "p",
         "div", "span"}

\* elements over leaves: every tag, and anchors with, with an empty and
\* without an href attribute
Level1 ==
    {Element(tag, kids) : tag \in Tags, kids \in LeafLists}
        \cup {Anchor(href, kids) : href \in {<<"u">>, <<>>}, kids \in LeafLists}
        \cup {Element("a", kids) : kids \in LeafLists}

\* an element nested in a list or in a container, alone or after a text
Level2 ==
    {Element(outer, before \o <<x>>) :
        outer \in {"ul", "ol", "div", "span"},
        before \in {<<>>, <<TextNode(<<"a">>)>>},
        x \in Level1}

Documents ==
    {Html(<<x>>) : x \in Level1 \cup Level2}
        \cup {Html(<<x, l>>) : x \in Level1, l \in Leaves}

InitHtml ==
    /\ canvasApiToken = "token"
    /\ canvasDomain = "canvas.example.edu"
    /\ tz = 0
    /\ ServerIdle
    /\ call \in {[fn |-> "html", plain |-> FALSE, source |-> <<>>, html |-> d] :
                    d \in Documents}
                \cup {[fn |-> "html", plain |-> TRUE, source |-> t,
                       html |-> ParseText(t)] : t \in PlainTexts}
    /\ ret = NoRet
    /\ invocations = <<>>

\* the three conversions of the document, and the Markdown converted again
ApplyConversions ==
    /\ Pending("html")
    /\ ret' = [done |-> TRUE,
               plainText |-> htmlToPlainText(call.html),
               markdown |-> convertHtmlToMarkdown(call.html),
               links |-> extractLinks(call.html),
               again |-> convertHtmlToMarkdown(
                            ParseText(convertHtmlToMarkdown(call.html)))]
    /\ UNCHANGED <<serverVars, tz, call, invocations>>

SpecHtml == InitHtml /\ [][ApplyConversions]_vars

-----------------------------------------------------------------------------
(* The server: what the remote API can answer *)

\* a course of the remote system; its name is the string "course <id>"
CourseOf(i) == [id |-> i, name |-> <<"course", i>>]

\* the course lists the API returns: the first n courses
CourseLists == {[i \in 1..n |-> CourseOf(i)] : n \in 0..MaxCourses}

Noon == 12 * 60 * 60 * 1000

A1 == [id |-> 11, name |-> <<"A">>, description |-> NullHtml,
       due_at |-> Iso(DaysFromCivil(2024, 3) + 10, Noon)]
A2 == [id |-> 12, name |-> <<"b">>, description |-> Html(<<TextNode(<<"a", " ", "b">>)>>),
       due_at |-> NullDate]
A3 == [id |-> 13, name |-> <<"A">>, description |-> EmptyHtml, due_at |-> GarbageDate]
A4 == [id |-> 14, name |-> <<"b">>, description |-> NullHtml,
       due_at |-> Iso(DaysFromCivil(2024, 3) + 13, Noon)]
A5 == [id |-> 15, name |-> <<"A", "b">>, description |-> NullHtml,
       due_at |-> Iso(DaysFromCivil(2024, 3) + 7, Noon)]

\* the assignment lists the API returns for a course
AssignmentLists == {<<>>, <<A4>>, <<A2, A5>>, <<A4, A3>>, <<A5, A1, A4>>}

\* allowed_attempts: number | null, or absent from the response
NullAttempts      == [kind |-> "null"]
AbsentAttempts    == [kind |-> "undefined"]
Attempts(n)       == [kind |-> "number", value |-> n]

DetailDescriptions ==
    { NullHtml,
      Html(<<Element("p", <<TextNode(<<"$", "1">>),
                            Anchor(<<"u">>, <<TextNode(<<"l">>)>>)>>)>>) }

\* the assignments the API returns for /courses/:id/assignments/:id
DetailAssignments ==
    {[id |-> 11, name |-> <<"A">>, description |-> d,
      due_at |-> NullDate, allowed_attempts |-> n] :
        d \in DetailDescriptions,
        n \in {NullAttempts, AbsentAttempts, Attempts(-1), Attempts(0), Attempts(3)}}

UndefinedId == [kind |-> "undefined"]
Id(n)       == [kind |-> "number", value |-> n]
\* JavaScript truthiness of a courseId: string | number | undefined
TruthyId(id) == id.kind = "number" /\ id.value # 0

-----------------------------------------------------------------------------
(* The server: the handlers *)

Init ==
    /\ canvasApiToken \in {NULL, "token"}
    /\ canvasDomain \in {NULL, "canvas.example.edu"}
    /\ tz \in TzOffsets
    /\ ServerIdle
    /\ call = NoCall
    /\ ret = NoRet
    /\ invocations = <<>>

\* the dispatcher may invoke a handler: the module has been loaded and no
\* invocation has been made yet
CanInvoke == setup # "start" /\ pc = "idle"

\* the handler's first call of canvasApiRequest, up to its await: the
\* configuration error goes to the handler's catch, which answers failed
FirstRequest(req, awaitPc, failed) ==
    IF ConfigurationError # NoError
    THEN /\ outcome' = failed
         /\ pc' = "done"
         /\ UNCHANGED <<request, netCalls>>
    ELSE /\ request' = req
         /\ netCalls' = netCalls + 1
         /\ pc' = awaitPc
         /\ UNCHANGED outcome

\* list_courses: index.ts:297-338
ListCourses(state) ==
    /\ CanInvoke
    /\ op' = "list_courses"
    /\ args' = [state |-> state]
    /\ FirstRequest([kind |-> "courses", enrollment_state |-> state, term |-> TRUE],
                    "list_courses",
                    ToolError("Failed to fetch courses", ConfigurationError))
    /\ UNCHANGED <<canvasApiToken, canvasDomain, tz, setup, response, courses, idx,
                   responses, allResults, log, call, ret, invocations>>

ListCoursesResponse ==
    /\ pc = "list_courses"
    /\ \E resp \in {Ok(l) : l \in CourseLists} \cup Failures :
        /\ response' = resp
        /\ outcome' =
            IF ResponseError(resp) # NoError
            THEN ToolError("Failed to fetch courses", ResponseError(resp))
            ELSE IF Len(resp.body) = 0
                 THEN ToolText([head |-> "No courses found.", state |-> args.state])
            ELSE ToolText([head |-> "Your courses:", state |-> args.state,
                           courseList |-> resp.body])
    /\ pc' = "done"
    /\ request' = NoRequest
    /\ UNCHANGED <<canvasApiToken, canvasDomain, tz, setup, op, args, netCalls, courses,
                   idx, responses, allResults, log, call, ret, invocations>>

\* canvas_list_active_courses: index.ts:340-379
ListActiveCourses ==
    /\ CanInvoke
    /\ op' = "canvas_list_active_courses"
    /\ args' = NoArgs
    /\ FirstRequest([kind |-> "dashboard_cards"], "list_active_courses",
                    ToolError("Failed to fetch active courses", ConfigurationError))
    /\ UNCHANGED <<canvasApiToken, canvasDomain, tz, setup, response, courses, idx,
                   responses, allResults, log, call, ret, invocations>>

ListActiveCoursesResponse ==
    /\ pc = "list_active_courses"
    /\ \E resp \in {Ok(l) : l \in CourseLists} \cup Failures :
        /\ response' = resp
        /\ outcome' =
            IF ResponseError(resp) # NoError
            THEN ToolError("Failed to fetch active courses", ResponseError(resp))
            ELSE IF Len(resp.body) = 0
                 THEN ToolText([head |-> "No active courses found in your dashboard."])
            ELSE ToolText([head |-> "Your active courses:", courseList |-> resp.body])
    /\ pc' = "done"
    /\ request' = NoRequest
    /\ UNCHANGED <<canvasApiToken, canvasDomain, tz, setup, op, args, netCalls, courses,
                   idx, responses, allResults, log, call, ret, invocations>>

SearchQueries == {UndefinedQuery, Query(<<"a">>), Query(<<" ", "*">>)}

SearchArgs ==
    [query : SearchQueries,
     dueBefore : {UndefinedDate, Bare(2024, 3, 12)},
     dueAfter : {UndefinedDate, Bare(2024, 3, 10)},
     includeCompleted : BOOLEAN,
     courseId : {UndefinedId, Id(1)}]

\* the request for a course's assignments (index.ts:434-464)
AssignmentsRequest(course, a) ==
    LET afterDate  == parseDate(a.dueAfter)
        beforeDate == parseDate(a.dueBefore)
    IN  [kind |-> "assignments", course |-> course.id,
         bucket |-> bucket(a.dueBefore, a.dueAfter),
         due_after |-> IF Truthy(a.dueAfter) /\ afterDate.valid
                       THEN IsoOf(SetHours(afterDate, StartOfDay))
                       ELSE UndefinedDate,
         due_before |-> IF Truthy(a.dueBefore) /\ beforeDate.valid
                        THEN IsoOf(SetHours(beforeDate, EndOfDay))
                        ELSE UndefinedDate]

\* SearchReport with the two empty outcomes answered alike
SearchReport_noCourses(results, a) ==
    IF Len(results) = 0
    THEN ToolText([head |-> "No courses found."])
    ELSE ToolText([head |-> "Found N assignments", count |-> Len(results),
                   matching |-> <<>>, due |-> <<>>,
                   resultsList |->
                      [k \in 1..Len(results) |->
                          [courseName |-> results[k].courseName,
                           courseId |-> results[k].courseId,
                           name |-> results[k].name,
                           id |-> results[k].id,
                           due |-> formatDate(results[k].due_at)]]])

\* the text of the search's answer (index.ts:525-563)
SearchReport(results, a) ==
    LET dateRange ==
            (IF Truthy(a.dueAfter) THEN <<[word |-> "after", date |-> a.dueAfter]>>
             ELSE <<>>)
            \o (IF Truthy(a.dueBefore)
                THEN <<[word |-> "before", date |-> a.dueBefore]>> ELSE <<>>)
        queryStr == IF ~isWildcard(a.query) THEN <<normalizedQuery(a.query)>> ELSE <<>>
    IN  IF Len(results) = 0
        THEN ToolText([head |-> "No assignments found", matching |-> queryStr,
                       due |-> dateRange])
        ELSE ToolText([head |-> "Found N assignments", count |-> Len(results),
                       matching |-> queryStr, due |-> dateRange,
                       resultsList |->
                          [k \in 1..Len(results) |->
                              [courseName |-> results[k].courseName,
                               courseId |-> results[k].courseId,
                               name |-> results[k].name,
                               id |-> results[k].id,
                               due |-> formatDate(results[k].due_at)]]])

\* SearchFrom without the per-course catch: a failed course ends the search
SearchFrom_abort(cs, i, acc, lg, resps) ==
    IF Len(lg) > Len(log)
    THEN /\ outcome' = ToolError("Search failed", lg[Len(lg)].error)
         /\ allResults' = acc
         /\ log' = log
         /\ responses' = resps
         /\ idx' = i
         /\ pc' = "done"
         /\ request' = NoRequest
         /\ UNCHANGED netCalls
    ELSE IF i <= Len(cs)
    THEN /\ request' = AssignmentsRequest(cs[i], args)
         /\ netCalls' = netCalls + 1
         /\ idx' = i
         /\ allResults' = acc
         /\ log' = lg
         /\ responses' = resps
         /\ pc' = "search_assignments"
         /\ UNCHANGED outcome
    ELSE \E sorted \in SortOutcomes(acc) :
            /\ allResults' = sorted
            /\ outcome' = SearchReport(sorted, args)
            /\ log' = lg
            /\ responses' = resps
            /\ idx' = Len(cs) + 1
            /\ pc' = "done"
            /\ request' = NoRequest
            /\ UNCHANGED netCalls

\* SearchFrom with the requests of all remaining courses issued at once
SearchFrom_fanOut(cs, i, acc, lg, resps) ==
    IF i <= Len(cs) /\ ConfigurationError = NoError
    THEN /\ request' = AssignmentsRequest(cs[i], args)
         /\ netCalls' = netCalls + (Len(cs) - i + 1)
         /\ idx' = i
         /\ allResults' = acc
         /\ log' = lg
         /\ responses' = resps
         /\ pc' = "search_assignments"
         /\ UNCHANGED outcome
    ELSE \E sorted \in SortOutcomes(acc) :
            /\ allResults' = sorted
            /\ outcome' = SearchReport(sorted, args)
            /\ log' = lg
            /\ responses' = resps
            /\ idx' = Len(cs) + 1
            /\ pc' = "done"
            /\ request' = NoRequest
            /\ UNCHANGED netCalls

\* the for loop of the search from course i on (index.ts:431-510), up to its
\* next await, and the code after the loop (index.ts:512-563) when no course
\* is left.  A request that throws before its fetch is caught and logged like
\* one that failed (index.ts:506-509).
SearchFrom(cs, i, acc, lg, resps) ==
    IF i <= Len(cs) /\ ConfigurationError = NoError
    THEN /\ request' = AssignmentsRequest(cs[i], args)
         /\ netCalls' = netCalls + 1
         /\ idx' = i
         /\ allResults' = acc
         /\ log' = lg
         /\ responses' = resps
         /\ pc' = "search_assignments"
         /\ UNCHANGED outcome
    ELSE LET rest == Len(cs) - i + 1
         IN  \E sorted \in SortOutcomes(acc) :
                /\ allResults' = sorted
                /\ outcome' = SearchReport(sorted, args)
                /\ log' = lg \o [k \in 1..rest |->
                                    [at |-> "search", course |-> cs[i + k - 1].id,
                                     error |-> ConfigurationError]]
                /\ responses' = resps \o [k \in 1..rest |-> [kind |-> "not_sent"]]
                /\ idx' = Len(cs) + 1
                /\ pc' = "done"
                /\ request' = NoRequest
                /\ UNCHANGED netCalls

\* search_assignments: index.ts:391-574
SearchAssignments(a) ==
    /\ CanInvoke
    /\ op' = "search_assignments"
    /\ args' = a
    /\ FirstRequest(IF TruthyId(a.courseId)
                    THEN [kind |-> "course", id |-> a.courseId.value]
                    ELSE [kind |-> "courses",
                          enrollment_state |-> IF a.includeCompleted THEN "all"
                                               ELSE "active",
                          term |-> FALSE],
                    "search_courses",
                    ToolError("Search failed", ConfigurationError))
    /\ UNCHANGED <<canvasApiToken, canvasDomain, tz, setup, response, courses, idx,
                   responses, allResults, log, call, ret, invocations>>

\* the request that resolves the course set ends (index.ts:411-426)
SearchCoursesResponse ==
    /\ pc = "search_courses"
    /\ \E resp \in (IF TruthyId(args.courseId)
                    THEN {Ok(CourseOf(args.courseId.value))}
                    ELSE {Ok(l) : l \in CourseLists}) \cup Failures :
        /\ response' = resp
        /\ IF ResponseError(resp) # NoError
           THEN /\ outcome' = ToolError("Search failed", ResponseError(resp))
                /\ pc' = "done"
                /\ request' = NoRequest
                /\ UNCHANGED <<courses, idx, allResults, log, responses, netCalls>>
           ELSE LET cs == IF TruthyId(args.courseId) THEN <<resp.body>> ELSE resp.body
                IN  /\ courses' = cs
                    /\ IF Len(cs) = 0
                       THEN /\ outcome' = ToolText([head |-> "No courses found."])
                            /\ pc' = "done"
                            /\ request' = NoRequest
                            /\ UNCHANGED <<idx, allResults, log, responses, netCalls>>
                       ELSE SearchFrom(cs, 1, <<>>, log, <<>>)
    /\ UNCHANGED <<canvasApiToken, canvasDomain, tz, setup, op, args, call, ret,
                   invocations>>

\* the request for the assignments of course idx ends (index.ts:467-510)
SearchAssignmentsResponse ==
    /\ pc = "search_assignments"
    /\ \E resp \in {Ok(l) : l \in AssignmentLists} \cup Failures :
        IF ResponseError(resp) # NoError
        THEN SearchFrom(courses, idx + 1, allResults,
                        Append(log, [at |-> "search", course |-> courses[idx].id,
                                     error |-> ResponseError(resp)]),
                        Append(responses, resp))
        ELSE SearchFrom(courses, idx + 1,
                        allResults \o courseResults(resp.body, courses[idx], args.query,
                                                    args.dueBefore, args.dueAfter),
                        log, Append(responses, resp))
    /\ UNCHANGED <<canvasApiToken, canvasDomain, tz, setup, op, args, response, courses,
                   call, ret, invocations>>

\* the report of get_assignment (index.ts:590-724): the lines that depend on
\* the name, the due date, the attempts, the description and its links
AssignmentDetails(assignment, a) ==
    LET hasDescription == assignment.description.kind = "html"
        links == IF hasDescription THEN extractLinks(assignment.description) ELSE <<>>
        none  == [format |-> "No description available"]
        description ==
            CASE a.formatType = "full" ->
                    IF hasDescription
                    THEN [format |-> "html", html |-> assignment.description] ELSE none
              [] a.formatType = "plain" ->
                    IF htmlToPlainText(assignment.description) # <<>>
                    THEN [format |-> "text",
                          chars |-> htmlToPlainText(assignment.description)]
                    ELSE none
              [] OTHER ->
                    IF hasDescription
                    THEN [format |-> "text",
                          chars |-> convertHtmlToMarkdown(assignment.description)]
                    ELSE none
    IN  << [line |-> "# name", name |-> assignment.name],
           [line |-> "Course ID", value |-> a.courseId],
           [line |-> "Assignment ID", value |-> assignment.id],
           [line |-> "Due Date", value |-> formatDate(assignment.due_at)] >>
        \o (IF /\ assignment.allowed_attempts # NullAttempts
               /\ assignment.allowed_attempts # Attempts(-1)
            THEN <<[line |-> "Allowed Attempts", value |-> assignment.allowed_attempts]>>
            ELSE <<>>)
        \o << [line |-> "Description", value |-> description] >>
        \o (IF Len(links) > 0
            THEN <<[line |-> "Required Materials and Links", links |-> links]>>
            ELSE <<>>)

\* get_assignment: index.ts:576-742
GetAssignment(courseId, assignmentId, formatType) ==
    /\ CanInvoke
    /\ op' = "get_assignment"
    /\ args' = [courseId |-> courseId, assignmentId |-> assignmentId,
                formatType |-> formatType]
    /\ FirstRequest([kind |-> "assignment", course |-> courseId,
                     assignment |-> assignmentId],
                    "get_assignment",
                    ToolError("Failed to fetch assignment details", ConfigurationError))
    /\ UNCHANGED <<canvasApiToken, canvasDomain, tz, setup, response, courses, idx,
                   responses, allResults, log, call, ret, invocations>>

GetAssignmentResponse ==
    /\ pc = "get_assignment"
    /\ \E resp \in {Ok(a) : a \in DetailAssignments} \cup Failures :
        /\ response' = resp
        /\ outcome' =
            IF ResponseError(resp) # NoError
            THEN ToolError("Failed to fetch assignment details", ResponseError(resp))
            ELSE ToolText([head |-> "details",
                           details |-> AssignmentDetails(resp.body, args)])
    /\ pc' = "done"
    /\ request' = NoRequest
    /\ UNCHANGED <<canvasApiToken, canvasDomain, tz, setup, op, args, netCalls, courses,
                   idx, responses, allResults, log, call, ret, invocations>>

\* the assignment_content resource: index.ts:744-776
AssignmentContent(courseId, assignmentId) ==
    /\ CanInvoke
    /\ op' = "assignment_content"
    /\ args' = [courseId |-> courseId, assignmentId |-> assignmentId]
    /\ FirstRequest([kind |-> "assignment", course |-> courseId,
                     assignment |-> assignmentId],
                    "assignment_content",
                    Thrown("Failed to fetch assignment content", ConfigurationError))
    /\ UNCHANGED <<canvasApiToken, canvasDomain, tz, setup, response, courses, idx,
                   responses, allResults, log, call, ret, invocations>>

AssignmentContentResponse ==
    /\ pc = "assignment_content"
    /\ \E resp \in {Ok(a) : a \in DetailAssignments} \cup Failures :
        /\ response' = resp
        /\ outcome' =
            IF ResponseError(resp) # NoError
            THEN Thrown("Failed to fetch assignment content", ResponseError(resp))
            ELSE ToolText([head |-> "contents", mimeType |-> "text/markdown",
                           name |-> resp.body.name,
                           description |-> resp.body.description])
    /\ pc' = "done"
    /\ request' = NoRequest
    /\ UNCHANGED <<canvasApiToken, canvasDomain, tz, setup, op, args, netCalls, courses,
                   idx, responses, allResults, log, call, ret, invocations>>

Next ==
    \/ ValidateSetup
    \/ ValidateSetupResponse
    \/ \E state \in {"active", "completed", "all"} : ListCourses(state)
    \/ ListCoursesResponse
    \/ ListActiveCourses
    \/ ListActiveCoursesResponse
    \/ \E a \in SearchArgs : SearchAssignments(a)
    \/ SearchCoursesResponse
    \/ SearchAssignmentsResponse
    \/ \E formatType \in {"full", "plain", "markdown"} :
            GetAssignment(1, 11, formatType)
    \/ GetAssignmentResponse
    \/ AssignmentContent(1, 11)
    \/ AssignmentContentResponse

Spec == Init /\ [][Next]_vars

-----------------------------------------------------------------------------
(* Interleaved invocations of search_assignments. The dispatcher may invoke
   the handler again while an earlier call waits at an await; every call has
   its own parameters and locals (index.ts:402-431), the credentials and the
   error stream are the process's. *)

Invocations == {1, 2}

\* a handler call that has not been made; fetched is the history of what the
\* call's own assignment requests returned
IdleInvocation ==
    [pc |-> "idle", args |-> NoArgs, request |-> NoRequest, courses |-> <<>>,
     idx |-> 0, allResults |-> <<>>, fetched |-> {}, outcome |-> NoOutcome]

ConcArgs ==
    {a \in SearchArgs :
        /\ a.query = UndefinedQuery
        /\ a.dueBefore = UndefinedDate /\ a.dueAfter = UndefinedDate
        /\ ~a.includeCompleted /\ a.courseId = UndefinedId}

ConcAssignmentLists == {<<>>, <<A2, A5>>}
ConcFailures == {[kind |-> "http_error", status |-> 500, text |-> ""]}

\* allResults declared outside the handler: a call starts from what another
\* call has accumulated
NewResults_shared(invs, i) ==
    LET j == CHOOSE j \in Invocations : j # i
    IN  invs[j].allResults

\* let allResults: AssignmentWithCourse[] = [] (index.ts:428)
NewResults(invs, i) == <<>>

\* the call after the for loop has reached course r.idx (index.ts:431-563):
\* at the await of that course's request, or past the loop, sorted and
\* reported. The credentials that let the first request pass are unchanged.
AfterCourse(r) ==
    IF r.idx <= Len(r.courses)
    THEN {[r EXCEPT !.pc = "search_assignments",
                    !.request = AssignmentsRequest(r.courses[r.idx], r.args)]}
    ELSE {[r EXCEPT !.pc = "done", !.request = NoRequest,
                    !.allResults = sorted,
                    !.outcome = SearchReport(sorted, r.args)] :
            sorted \in SortOutcomes(r.allResults)}

InitConc ==
    /\ canvasApiToken \in {NULL, "token"}
    /\ canvasDomain \in {NULL, "canvas.example.edu"}
    /\ tz = 0
    /\ ServerIdle
    /\ call = NoCall
    /\ ret = NoRet
    /\ invocations = [i \in Invocations |-> IdleInvocation]

\* the dispatcher invokes search_assignments (index.ts:402-417)
Invoke(i, a) ==
    /\ setup # "start"
    /\ invocations[i].pc = "idle"
    /\ invocations' =
        [invocations EXCEPT ![i] =
            IF ConfigurationError # NoError
            THEN [@ EXCEPT !.pc = "done", !.args = a,
                           !.outcome = ToolError("Search failed", ConfigurationError)]
            ELSE [@ EXCEPT !.pc = "search_courses", !.args = a,
                           !.request = [kind |-> "courses",
                                        enrollment_state |-> "active",
                                        term |-> FALSE]]]
    /\ UNCHANGED <<serverVars, tz, call, ret>>

\* the request for the course set of call i ends (index.ts:411-431)
CoursesResponse(i) ==
    LET r == invocations[i]
    IN  /\ r.pc = "search_courses"
        /\ \E resp \in {Ok(l) : l \in CourseLists} \cup ConcFailures :
            IF ResponseError(resp) # NoError
            THEN invocations' =
                    [invocations EXCEPT ![i] =
                        [r EXCEPT !.pc = "done", !.request = NoRequest,
                                  !.outcome = ToolError("Search failed",
                                                        ResponseError(resp))]]
            ELSE IF Len(resp.body) = 0
            THEN invocations' =
                    [invocations EXCEPT ![i] =
                        [r EXCEPT !.pc = "done", !.request = NoRequest,
                                  !.outcome = ToolText([head |-> "No courses found."])]]
            ELSE \E next \in AfterCourse(
                        [r EXCEPT !.courses = resp.body, !.idx = 1,
                                  !.allResults = NewResults(invocations, i)]) :
                    invocations' = [invocations EXCEPT ![i] = next]
        /\ UNCHANGED <<serverVars, tz, call, ret>>

\* the request for the assignments of course idx of call i ends
\* (index.ts:467-510)
AssignmentsResponse(i) ==
    LET r == invocations[i]
        course == r.courses[r.idx]
    IN  /\ r.pc = "search_assignments"
        /\ \E resp \in {Ok(l) : l \in ConcAssignmentLists} \cup ConcFailures :
            IF ResponseError(resp) # NoError
            THEN /\ log' = Append(log, [at |-> "search", course |-> course.id,
                                        error |-> ResponseError(resp)])
                 /\ \E next \in AfterCourse([r EXCEPT !.idx = @ + 1]) :
                        invocations' = [invocations EXCEPT ![i] = next]
            ELSE /\ log' = log
                 /\ \E next \in AfterCourse(
                        [r EXCEPT !.idx = @ + 1,
                                  !.allResults =
                                      @ \o courseResults(resp.body, course,
                                                         r.args.query,
                                                         r.args.dueBefore,
                                                         r.args.dueAfter),
                                  !.fetched =
                                      @ \cup {WithCourse(resp.body[k], course) :
                                                k \in 1..Len(resp.body)}]) :
                        invocations' = [invocations EXCEPT ![i] = next]
        /\ UNCHANGED <<canvasApiToken, canvasDomain, tz, setup, pc, op, args,
                       request, netCalls, response, courses, idx, responses,
                       allResults, outcome, call, ret>>

NextConc ==
    \/ ValidateSetup
    \/ ValidateSetupResponse
    \/ \E i \in Invocations, a \in ConcArgs : Invoke(i, a)
    \/ \E i \in Invocations : CoursesResponse(i)
    \/ \E i \in Invocations : AssignmentsResponse(i)

SpecConc == InitConc /\ [][NextConc]_vars

\* The steps the code itself is sure to take. The continuation of
\* `await fetch(...)` (index.ts:90-97) runs when the remote system answers or
\* the connection fails; fetch is given no signal and no timer is set, so
\* nothing in the program makes that step happen. Only the start of
\* validateSetup waits on nothing.
SpecLive == Init /\ [][Next]_vars /\ WF_vars(ValidateSetup)

-----------------------------------------------------------------------------
(* Claims about the pure functions *)

MissingOrUnparseable(date) ==
    date.kind \in {"null", "undefined", "empty", "garbage"}

\* C9: isDateInRange returns true for every before/after combination when
\* the date is missing and when it is present but fails to parse, and the
\* date stage of the search never drops an assignment with such a due date.
C9_MissingDateInRange ==
    (call.fn = "isDateInRange" /\ ret.done /\ MissingOrUnparseable(call.date))
        => (ret.value /\ ret.kept)

\* an unparseable due date was tested against two parseable bounds
C9_Witness ==
    /\ call.fn = "isDateInRange" /\ ret.done
    /\ call.date.kind = "garbage"
    /\ call.before.kind = "bare" /\ call.after.kind = "bare"
    /\ ret.value /\ ret.kept

\* the terms of a query: its maximal runs of non-whitespace characters
QueryTerms(chars) ==
    {SubSeq(chars, i, j) : i \in 1..Len(chars), j \in 1..Len(chars)} \cap
    {t \in SeqsUpTo(QueryChars, Len(chars)) :
        /\ t # <<>>
        /\ \A k \in 1..Len(t) : t[k] \notin Whitespace
        /\ \E i \in 1..Len(chars) :
            /\ i + Len(t) - 1 <= Len(chars)
            /\ \A k \in 1..Len(t) : chars[i + k - 1] = t[k]
            /\ (i = 1 \/ chars[i - 1] \in Whitespace)
            /\ (i + Len(t) - 1 = Len(chars) \/ chars[i + Len(t)] \in Whitespace)}

\* absent, empty, whitespace only, or a single "*" with whitespace around it
WildcardQuery(query) ==
    \/ query.kind = "undefined"
    \/ \A k \in 1..Len(query.chars) : query.chars[k] \in Whitespace
    \/ \E i \in 1..Len(query.chars) :
        /\ query.chars[i] = "*"
        /\ \A k \in 1..Len(query.chars) : k # i => query.chars[k] \in Whitespace

\* term occurs in text, case ignored
OccursIn(term, text) ==
    \E off \in 0..(Len(text) - Len(term)) :
        \A k \in 1..Len(term) : LowerChar(text[off + k]) = LowerChar(term[k])

\* C6: an assignment passes the text stage if and only if the query is a
\* wildcard (absent, empty, whitespace only, or "*") or at least one
\* whitespace-separated term of the query occurs, case ignored, in the title
\* or in the plain-text rendering of the description; under a wildcard query
\* the text stage removes nothing.
C6_TextStage ==
    (call.fn = "passesText" /\ ret.done) =>
        LET a == call.assignment
            q == call.query
            expected ==
                \/ WildcardQuery(q)
                \/ \E t \in QueryTerms(q.chars) :
                    \/ OccursIn(t, a.name)
                    \/ OccursIn(t, htmlToPlainText(a.description))
        IN  /\ ret.value = expected
            /\ ret.kept = (IF expected THEN <<a>> ELSE <<>>)

\* a two-term query matched only through the case-lowered title
C6_Witness ==
    /\ call.fn = "passesText" /\ ret.done
    /\ call.query = Query(<<"a", " ", "B">>)
    /\ call.assignment.name = <<"A">>
    /\ call.assignment.description = NullHtml
    /\ ret.value /\ ret.kept = <<call.assignment>>

DueDatePresent(a) == a.due_at.kind \notin {"null", "undefined", "empty"}
DueDateParses(a)  == a.due_at.kind \in {"bare", "iso"}

\* C7: the sorted list has every assignment with a due date before every
\* assignment without one, the assignments with due dates in non-decreasing
\* instant order, and ties in their original encounter order, for every
\* input list, lists with unparseable due_at strings included.
C7_SortedByDueDate ==
    (call.fn = "sort" /\ ret.done) =>
        LET out == ret.value
        IN  \A i, j \in 1..Len(out) : i < j =>
                /\ ~(~DueDatePresent(out[i]) /\ DueDatePresent(out[j]))
                /\ (DueDateParses(out[i]) /\ DueDateParses(out[j])
                        => CompareTime(parseDate(out[i].due_at),
                                       parseDate(out[j].due_at)) <= 0)
                /\ ((\/ (~DueDatePresent(out[i]) /\ ~DueDatePresent(out[j]))
                     \/ (/\ DueDateParses(out[i]) /\ DueDateParses(out[j])
                         /\ CompareTime(parseDate(out[i].due_at),
                                        parseDate(out[j].due_at)) = 0))
                        => out[i].id < out[j].id)

-----------------------------------------------------------------------------
(* Claims about the handlers *)

SearchDone == pc = "done" /\ op = "search_assignments"

\* the entries the search's answer lists
Listed ==
    IF outcome.kind = "returned" /\ ~outcome.isError
        /\ outcome.text.head = "Found N assignments"
    THEN outcome.text.resultsList ELSE <<>>

\* the assignments of course i's response that are matches of the search
MatchesOf(i) ==
    IF responses[i].kind # "ok" THEN {}
    ELSE {responses[i].body[j] : j \in 1..Len(responses[i].body)} \cap
         {a \in {A1, A2, A3, A4, A5} :
            /\ passesText(a, args.query)
            /\ passesDate(a, args.dueBefore, args.dueAfter)}

\* the listed entries that show assignment a under course c
EntriesFor(c, a) ==
    {k \in 1..Len(Listed) :
        /\ Listed[k].courseId = c.id /\ Listed[k].courseName = c.name
        /\ Listed[k].id = a.id /\ Listed[k].name = a.name}

\* C1: for a non-empty course set and any subset of courses whose assignment
\* request fails, the search ends with a result that is not an error, that
\* lists every match of every course whose request succeeded, tagged with
\* that course's name and ID, and that lists nothing for a failed course.
C1_CourseFailureIsolated ==
    (SearchDone /\ Len(courses) > 0) =>
        /\ outcome.kind = "returned" /\ ~outcome.isError
        /\ Len(responses) = Len(courses)
        /\ \A i \in 1..Len(courses) : \A a \in {A1, A2, A3, A4, A5} :
                Cardinality(EntriesFor(courses[i], a))
                    = IF a \in MatchesOf(i) THEN 1 ELSE 0
        /\ \A k \in 1..Len(Listed) : \E i \in 1..Len(courses) :
                /\ Listed[k].courseId = courses[i].id
                /\ Listed[k].courseName = courses[i].name
                /\ \E a \in MatchesOf(i) : a.id = Listed[k].id

\* course 2's request failed and course 1's matches are listed
C1_Witness ==
    /\ SearchDone /\ Len(courses) = 2
    /\ responses[1] = Ok(<<A5, A1, A4>>)
    /\ responses[2].kind = "http_error"
    /\ Len(Listed) = 3
    /\ \A k \in 1..Len(Listed) : Listed[k].courseId = 1

\* the failure that reached the handler's own catch: the configuration
\* error, or the error its first request ended in
HandlerFailure ==
    IF ConfigurationError # NoError THEN ConfigurationError
    ELSE IF response # NoResponse THEN ResponseError(response)
    ELSE NoError

Carries(out, error) ==
    \/ out.kind = "returned" /\ out.isError /\ out.text.error = error
    \/ out.kind = "thrown" /\ out.error.cause = error

\* C3: with the token or the host absent no outbound request is ever
\* issued, and every operation invoked ends in the configuration error.
C3_NoRequestWithoutConfiguration ==
    (canvasApiToken = NULL \/ canvasDomain = NULL) =>
        /\ netCalls = 0
        /\ request = NoRequest
        /\ setup # "await_auth"
        /\ pc \in {"idle", "done"}
        /\ (pc = "done" =>
                Carries(outcome, IF canvasApiToken = NULL THEN TokenError
                                 ELSE DomainError))

\* a search with the host absent ended in the configuration error
C3_Witness ==
    /\ canvasApiToken # NULL /\ canvasDomain = NULL
    /\ SearchDone
    /\ outcome.kind = "returned" /\ outcome.isError
    /\ outcome.text.error = DomainError
    /\ netCalls = 0

\* the responses with a non-success status the invocation got in the search loop
FailedStatus(i) == responses[i].kind = "http_error"

\* C4 as stated: whenever a request of the invocation ends with a
\* non-success status, the handler's result carries the error with the
\* status code and the response body.
C4_StatusSurfaced ==
    pc = "done" =>
        /\ (response # NoResponse /\ response.kind = "http_error" =>
                Carries(outcome, ApiError(response.status, response.text)))
        /\ \A i \in 1..Len(responses) :
                FailedStatus(i) =>
                    Carries(outcome, ApiError(responses[i].status, responses[i].text))

\* C4 amended: a non-success status fails the request with an error carrying
\* the status code and the response body; the handler's result carries that
\* error when it is the handler's first request, while the error of a
\* course's assignments request in search_assignments is only written to the
\* diagnostic log and the result is not an error.
C4_StatusSurfacedOrLogged ==
    pc = "done" =>
        /\ (response # NoResponse /\ response.kind = "http_error" =>
                Carries(outcome, ApiError(response.status, response.text)))
        /\ \A i \in 1..Len(responses) :
                FailedStatus(i) =>
                    /\ \E k \in 1..Len(log) :
                        log[k] = [at |-> "search", course |-> courses[i].id,
                                  error |-> ApiError(responses[i].status,
                                                     responses[i].text)]
                    /\ outcome.kind = "returned" /\ ~outcome.isError

\* the search's course request ended with status 401 and the result says so
C4_Witness ==
    /\ SearchDone
    /\ response = [kind |-> "http_error", status |-> 401, text |-> "unauthorized"]
    /\ outcome = ToolError("Search failed", ApiError(401, "unauthorized"))

\* the due date is missing or unparseable, or lies between the first
\* millisecond of the dueAfter day and the last one of the dueBefore day
DueWithin(due_at, dueBefore, dueAfter) ==
    LET due == parseDate(due_at)
        before == parseDate(dueBefore)
        after  == parseDate(dueAfter)
    IN  \/ ~due.valid
        \/ /\ (before.valid =>
                    CompareTime(due, SetHours(before, EndOfDay)) <= 0)
           /\ (after.valid =>
                    CompareTime(due, SetHours(after, StartOfDay)) >= 0)

\* C5: every assignment in the result of search_assignments satisfies the
\* date range, also when only one of dueBefore and dueAfter is given.
C5_ResultsInRange ==
    SearchDone =>
        \A k \in 1..Len(allResults) :
            DueWithin(allResults[k].due_at, args.dueBefore, args.dueAfter)

\* the number of assignments that survived the filters, over all courses
RECURSIVE SurvivorsFrom(_)
SurvivorsFrom(i) ==
    IF i > Len(responses) THEN 0
    ELSE Cardinality(MatchesOf(i)) + SurvivorsFrom(i + 1)

\* C8: the search answers "No courses found." exactly when the resolved
\* course set is empty, "No assignments found" exactly when a course was
\* resolved and no assignment survived the filters, and otherwise the list
\* headed "Found N assignments" with N the number of listed results.
C8_EmptyOutcomes ==
    (SearchDone /\ HandlerFailure = NoError) =>
        /\ outcome.kind = "returned" /\ ~outcome.isError
        /\ (outcome.text.head = "No courses found.") = (Len(courses) = 0)
        /\ (outcome.text.head = "No assignments found")
                = (Len(courses) > 0 /\ SurvivorsFrom(1) = 0)
        /\ (outcome.text.head = "Found N assignments")
                = (Len(courses) > 0 /\ SurvivorsFrom(1) > 0)
        /\ (outcome.text.head = "Found N assignments" =>
                /\ outcome.text.count = Len(outcome.text.resultsList)
                /\ outcome.text.count = SurvivorsFrom(1))

\* a course answered with assignments and none of them survived
C8_Witness ==
    /\ SearchDone
    /\ Len(courses) = 1
    /\ responses = <<Ok(<<A4>>)>>
    /\ args.query = Query(<<"a">>)
    /\ args.dueBefore = Bare(2024, 3, 12) /\ args.dueAfter = Bare(2024, 3, 10)
    /\ HandlerFailure = NoError
    /\ outcome.text.head = "No assignments found"

\* C10: the report of get_assignment has no attempts line when
\* allowed_attempts is -1, null or absent from the response, and has the
\* line with the number for any other value.
C10_AttemptsLine ==
    (pc = "done" /\ op = "get_assignment" /\ response.kind = "ok") =>
        LET n == response.body.allowed_attempts
            details == outcome.text.details
            shown == {k \in 1..Len(details) : details[k].line = "Allowed Attempts"}
        IN  IF n.kind = "number" /\ n.value # -1
            THEN \E k \in shown : details[k].value = n
            ELSE shown = {}

-----------------------------------------------------------------------------
(* Claims about the HTML conversions *)

\* a "$" that a digit follows and no backslash precedes
Unescaped(s) ==
    \E i \in 1..(Len(s) - 1) :
        /\ s[i] = "$"
        /\ s[i + 1] \in Digits
        /\ (i = 1 \/ s[i - 1] # "\\")

\* C11: in the plain text, in the Markdown and in the text of the extracted
\* links, every "$" that digits follow is written with a backslash before it.
C11_DollarEscaped ==
    (call.fn = "html" /\ ret.done) =>
        /\ ~Unescaped(ret.plainText)
        /\ ~Unescaped(ret.markdown)
        /\ \A k \in 1..Len(ret.links) : ~Unescaped(ret.links[k].text)

-----------------------------------------------------------------------------
(* Claims about requests that are not answered *)

\* C12: every invocation of a handler eventually returns a result, also when
\* the remote system never answers a request.
C12_EventuallyReturns == (pc # "idle") ~> (pc = "done")

-----------------------------------------------------------------------------
(* Claims about parseDate *)

LeapYear(y) == (y % 4 = 0 /\ y % 100 # 0) \/ y % 400 = 0

DaysInMonth(y, m) ==
    IF m = 2 THEN (IF LeapYear(y) THEN 29 ELSE 28)
    ELSE IF m \in {4, 6, 9, 11} THEN 30 ELSE 31

CalendarDate(t) ==
    t.m \in 1..12 /\ t.d \in 1..DaysInMonth(t.y, t.m)

\* C13: parseDate returns a date for a YYYY-MM-DD string exactly when the
\* string names a calendar date, and none for every other such string.
C13_CalendarDatesOnly ==
    (call.fn = "parseDate" /\ ret.done) =>
        (ret.value.valid <=> CalendarDate(call.dateStr))

-----------------------------------------------------------------------------
(* Claims about the boundaries of isDateInRange *)

Parses(date) == Truthy(date) /\ parseDate(date).valid

\* the local calendar day an instant falls on
LocalDayOf(t) == AddMs(t, tz * 60 * 1000).day

\* the first millisecond of a local calendar day
FirstInstantOf(localDay) == AddMs(Instant(localDay, 0), -(tz * 60 * 1000))

\* the last millisecond of a local calendar day
LastInstantOf(localDay) == AddMs(FirstInstantOf(localDay + 1), -1)

NotLaterThanDay(date, bound) ==
    CompareTime(parseDate(date), LastInstantOf(LocalDayOf(parseDate(bound)))) <= 0

NotEarlierThanDay(date, bound) ==
    CompareTime(parseDate(date), FirstInstantOf(LocalDayOf(parseDate(bound)))) >= 0

\* C14: for a date that parses and bounds that parse (or are left out),
\* isDateInRange is true exactly when the date is not later than
\* 23:59:59.999 local time on the `before` day and not earlier than
\* 00:00:00.000 local time on the `after` day.
C14_BoundaryDaysInclusive ==
    ( /\ call.fn = "isDateInRange" /\ ret.done
      /\ Parses(call.date)
      /\ (Truthy(call.before) => Parses(call.before))
      /\ (Truthy(call.after) => Parses(call.after)) ) =>
        ( ret.value <=>
            /\ (Truthy(call.before) => NotLaterThanDay(call.date, call.before))
            /\ (Truthy(call.after) => NotEarlierThanDay(call.date, call.after)) )

\* a date at the last millisecond of the `before` day was found in range
C14_Witness ==
    /\ call.fn = "isDateInRange" /\ ret.done
    /\ tz = 330
    /\ call.before = Bare(2024, 3, 12)
    /\ call.after = Bare(2024, 3, 10)
    /\ call.date = IsoOf(LastInstantOf(LocalDayOf(parseDate(call.before))))
    /\ ret.value

-----------------------------------------------------------------------------
(* Claims about convertHtmlToMarkdown on plain text *)

\* a "$" that a digit follows
DollarDigit(s) ==
    \E i \in 1..(Len(s) - 1) : s[i] = "$" /\ s[i + 1] \in Digits

\* three newlines in a row
LongNewlineRun(s) ==
    \E i \in 1..(Len(s) - 2) : s[i] = "\n" /\ s[i + 1] = "\n" /\ s[i + 2] = "\n"

\* s from its first to its last character that is not whitespace
Trimmed(s) ==
    LET inked == {i \in 1..Len(s) : s[i] \notin {" ", "\n"}}
    IN  IF inked = {} THEN <<>>
        ELSE SubSeq(s, CHOOSE i \in inked : \A j \in inked : i <= j,
                       CHOOSE i \in inked : \A j \in inked : i >= j)

PlainTextConverted == call.fn = "html" /\ call.plain /\ ret.done

\* C15 as stated: for every input without tags convertHtmlToMarkdown returns
\* the input trimmed, and converting the output again changes nothing.
C15_PlainTextTrimmed ==
    PlainTextConverted =>
        /\ ret.markdown = Trimmed(call.source)
        /\ ret.again = ret.markdown

\* C15 as amended: for every input without tags that has no "$" followed by a
\* digit and, once trimmed, no run of three or more newlines,
\* convertHtmlToMarkdown returns the input trimmed, and converting the output
\* again changes nothing.
C15_OrdinaryTextTrimmed ==
    ( /\ PlainTextConverted
      /\ ~DollarDigit(call.source)
      /\ ~LongNewlineRun(Trimmed(call.source)) ) =>
        /\ ret.markdown = Trimmed(call.source)
        /\ ret.again = ret.markdown

\* a text with whitespace around it and newlines inside came back trimmed
C15_Witness ==
    /\ PlainTextConverted
    /\ call.source = <<" ", "a", "\n", "$", "\n">>
    /\ ret.markdown = <<"a", "\n", "$">>
    /\ ret.again = ret.markdown

-----------------------------------------------------------------------------
(* Claims about the content convertHtmlToMarkdown keeps *)

RECURSIVE TextsBelow(_)
\* the texts of the text nodes at and below the nodes
TextsBelow(nodes) ==
    IF nodes = <<>> THEN {}
    ELSE LET n == Head(nodes)
             own == IF n.type = "text" THEN {n.text}
                    ELSE IF n.type = "element" THEN TextsBelow(n.children)
                    ELSE {}
         IN  own \cup TextsBelow(Tail(nodes))

RECURSIVE ElementsBelow(_)
\* the elements at and below the nodes
ElementsBelow(nodes) ==
    IF nodes = <<>> THEN {}
    ELSE LET n == Head(nodes)
             own == IF n.type = "element" THEN {n} \cup ElementsBelow(n.children)
                    ELSE {}
         IN  own \cup ElementsBelow(Tail(nodes))

\* the tags the mapping of section 4.2 lists
ListedTags == {"h1", "h2", "h3", "strong", "b", "em", "i", "ul", "ol", "li",
               "p", "br", "a"}

\* t is a contiguous part of s
Within(t, s) ==
    \E i \in 1..(Len(s) - Len(t) + 1) : SubSeq(s, i, i + Len(t) - 1) = t

\* s with every newline left out that two newlines precede
Collapsed(s) ==
    LET kept == {i \in 1..Len(s) :
                    ~(i > 2 /\ s[i] = "\n" /\ s[i - 1] = "\n" /\ s[i - 2] = "\n")}
        nth[k \in 1..Cardinality(kept)] ==
            CHOOSE i \in kept : Cardinality({j \in kept : j < i}) = k - 1
    IN  [k \in 1..Cardinality(kept) |-> s[nth[k]]]

\* s without the backslashes the escaping of "$" puts in
Unbackslashed(s) == SelectSeq(s, LAMBDA c : c # "\\")

\* the Markdown has the text, up to the trim, the collapse of newlines and
\* the escaping
Kept(t, markdown) == Within(Collapsed(Trimmed(t)), Unbackslashed(markdown))

\* C16: an element whose tag the mapping does not list contributes the
\* concatenation of its transformed children, and the text of every text node
\* of the document is part of the Markdown, up to the final trim and the
\* collapse of newlines.
C16_NoContentLost ==
    (call.fn = "html" /\ ret.done) =>
        /\ \A e \in ElementsBelow(call.html.body) :
                e.tag \notin ListedTags =>
                    processNode(e) = processNodes(e.children)
        /\ \A t \in TextsBelow(call.html.body) : Kept(t, ret.markdown)

-----------------------------------------------------------------------------
(* Claims about interleaved invocations *)

\* the results call i has accumulated, and the entries of the list it
\* answered with, all come from the requests call i made itself
OwnResultsOnly(i) ==
    LET r == invocations[i]
    IN  /\ \A k \in 1..Len(r.allResults) : r.allResults[k] \in r.fetched
        /\ (r.pc = "done" /\ r.outcome.kind = "returned" /\ ~r.outcome.isError
                /\ r.outcome.text.head = "Found N assignments") =>
                \A k \in 1..Len(r.outcome.text.resultsList) :
                    \E f \in r.fetched :
                        /\ f.id = r.outcome.text.resultsList[k].id
                        /\ f.courseId = r.outcome.text.resultsList[k].courseId

\* C17: when invocations interleave at their awaits, the result list of each
\* search holds only assignments that invocation fetched, and no step writes
\* the token or the host.
C17_NoSharedState ==
    /\ [](\A i \in Invocations : OwnResultsOnly(i))
    /\ [][canvasApiToken' = canvasApiToken /\ canvasDomain' = canvasDomain]_vars

\* one call waits for its second course with results in hand while the other
\* call, invoked meanwhile, has answered that it found nothing
C17_Witness ==
    /\ invocations[1].pc = "search_assignments"
    /\ invocations[1].idx = 2
    /\ Len(invocations[1].allResults) = 2
    /\ invocations[2].pc = "done"
    /\ invocations[2].fetched = {}
    /\ invocations[2].outcome.text.head = "No assignments found"

-----------------------------------------------------------------------------
(* Claims about the order of the per-course requests *)

\* the fetch calls of validateSetup
SetupCalls ==
    IF setup # "start" /\ canvasApiToken # NULL /\ canvasDomain # NULL THEN 1 ELSE 0

\* the requests of the invocation that have ended, answered or failed
Completed ==
    (IF response # NoResponse THEN 1 ELSE 0)
        + Cardinality({k \in 1..Len(responses) : responses[k].kind # "not_sent"})

\* the requests of the invocation that were issued and have not ended
InFlight == netCalls - SetupCalls - Completed

\* position of course id c in the resolved course set
CourseIndex(c) == CHOOSE k \in 1..Len(courses) : courses[k].id = c

\* position of assignment id a in what the API returned for the k-th course
PositionIn(k, a) ==
    CHOOSE n \in 1..Len(responses[k].body) : responses[k].body[n].id = a

\* results in course order and, within a course, in the order of the API
InEncounterOrder(results) ==
    \A p, q \in 1..Len(results) :
        p < q =>
            LET cp == CourseIndex(results[p].courseId)
                cq == CourseIndex(results[q].courseId)
            IN  \/ cp < cq
                \/ /\ cp = cq
                   /\ PositionIn(cp, results[p].id) < PositionIn(cq, results[q].id)

\* the sort has not run, or had nothing to reorder: no result has a due date
Unsorted ==
    \/ pc = "search_assignments"
    \/ SearchDone /\ \A k \in 1..Len(allResults) : ~Truthy(allResults[k].due_at)

\* C18: within one search the request for a course is issued only after the
\* requests of all courses before it have ended, at most one request of the
\* invocation is in flight, and before the sort the accumulated results are
\* in course order and, within a course, in the order the API returned them.
C18_CoursesInSequence ==
    op = "search_assignments" =>
        /\ InFlight \in {0, 1}
        /\ (InFlight = 1) = (pc \in {"search_courses", "search_assignments"})
        /\ pc = "search_assignments" =>
                /\ request.kind = "assignments"
                /\ request.course = courses[idx].id
                /\ Len(responses) = idx - 1
                /\ \A k \in 1..Len(responses) : responses[k].kind # "not_sent"
        /\ Unsorted => InEncounterOrder(allResults)

\* the request for the second course is in flight after the first course
\* answered with three assignments, all kept
C18_Witness ==
    /\ op = "search_assignments"
    /\ pc = "search_assignments"
    /\ Len(courses) = 2
    /\ idx = 2
    /\ responses = <<Ok(<<A5, A1, A4>>)>>
    /\ Len(allResults) = 3
    /\ request.course = 2

-----------------------------------------------------------------------------
(* Claims about the post-processing of convertHtmlToMarkdown *)

\* the transformed nodes of the body, joined, before the post-processing
Joined == processNodes(call.html.body)

\* C19: the Markdown is the joined text with every run of three or more
\* newlines collapsed to two and then trimmed: it has no whitespace at
\* either end and no run of three or more newlines.
C19_CollapsedAndTrimmed ==
    (call.fn = "html" /\ ret.done) =>
        /\ ret.markdown = Trimmed(Collapsed(Joined))
        /\ ret.markdown # <<>> =>
                /\ ret.markdown[1] \notin {" ", "\n"}
                /\ ret.markdown[Len(ret.markdown)] \notin {" ", "\n"}
        /\ ~LongNewlineRun(ret.markdown)

\* a paragraph that ends in a line break, then text: three newlines became two
C19_Witness ==
    /\ call.fn = "html" /\ ret.done
    /\ call.html = Html(<<Element("p", <<TextNode(<<"a">>), Element("br", <<>>)>>),
                          TextNode(<<"a">>)>>)
    /\ Joined = <<"a", "\n", "\n", "\n", "a">>
    /\ ret.markdown = <<"a", "\n", "\n", "a">>

=============================================================================
